---- MODULE Spec2Model ----
(***************************************************************************)
(* Model of scripts/process_data.py: the incremental JSONL.gz -> Parquet   *)
(* synchronisation (StateManager ledger, discovery, per-file conversion    *)
(* loop, orphan clean-up, summary and exit code).                          *)
(*                                                                         *)
(* Paths are sequences of one-character strings, so that the two           *)
(* str.replace calls of the path mapping are computed character by         *)
(* character as Python computes them.  A file's content is a small number  *)
(* c >= 1: a file of c records and c bytes; 0 means "no such file".        *)
(*                                                                         *)
(* The ledger's timestamp columns (processed_at, failed_at) are left out.   *)
(*                                                                         *)
(* Environment: the external producer writes and deletes source files      *)
(* between runs, and may delete a discovered file before the conversion    *)
(* loop has reached it.  The operator may call StateManager.clear_entity   *)
(* between runs.  The first run starts from a fresh ledger, an empty       *)
(* target tree and a source tree that holds every file of Files.           *)
(*                                                                         *)
(* Spec is the program with a ledger and an engine that fail only as the   *)
(* code handles it.  SpecTruncating adds an engine that fails after it has *)
(* written some or all of the output file, SpecLedgerFaults a ledger whose *)
(* calls may raise, and                                                    *)
(* SpecLedger is the StateManager alone, one SQL statement per step, with  *)
(* a crash possible at every statement.  SpecNormalizer is the             *)
(* SchemaNormalizer and convert_to_parquet alone, one engine call per      *)
(* step; in the other specifications a conversion is one step whose        *)
(* outcome is not determined.                                              *)
(***************************************************************************)
EXTENDS Integers, Sequences, FiniteSets, TLC

\* ------------------------------------------------------------------ bounds
MaxRuns == 3
MaxOps == 2
MaxRetry == 2

\* ----------------------------------------------------------------- strings
GZ == <<".", "g", "z">>
PARQUET == <<".", "p", "a", "r", "q", "u", "e", "t">>
SEP == <<"/">>

StartsWith(s, pre) == Len(s) >= Len(pre) /\ SubSeq(s, 1, Len(pre)) = pre

EndsWith(s, suf) ==
    Len(s) >= Len(suf) /\ SubSeq(s, Len(s) - Len(suf) + 1, Len(s)) = suf

\* Python str.replace(old, new): every non-overlapping occurrence, scanning
\* from the left.
RECURSIVE Replace(_, _, _)
Replace(s, old, new) ==
    IF Len(s) < Len(old) THEN s
    ELSE IF SubSeq(s, 1, Len(old)) = old
         THEN new \o Replace(SubSeq(s, Len(old) + 1, Len(s)), old, new)
         ELSE <<s[1]>> \o Replace(Tail(s), old, new)

\* Path(p).relative_to(root) / os.path.relpath(p, root) for p under root.
RelativeTo(p, root) == SubSeq(p, Len(root) + 2, Len(p))

\* Path(root) / rel, os.path.join(root, rel).
Join(root, rel) == root \o SEP \o rel

\* ----------------------------------------------------------- configuration
source_dir == <<"s">>
target_dir == <<"t">>
\* CONFIG["entity_types"], cut to two categories: "a" (authors), "w" (works).
entity_types == << <<"a">>, <<"w">> >>

EntityIdx == 1..Len(entity_types)

Entities == {entity_types[i] : i \in EntityIdx}

\* The source paths the producer may write:
\*   s/a/p.gz            an ordinary partition file
\*   s/w/d.gz/p.gz       a partition directory whose name contains ".gz"
\*   s/w/d.parquet/p.gz  a partition directory whose name contains ".parquet"
File_a == Join(source_dir, <<"a">> \o SEP \o <<"p">> \o GZ)
File_w1 == Join(source_dir, <<"w">> \o SEP \o <<"d">> \o GZ \o SEP \o <<"p">> \o GZ)
File_w2 == Join(source_dir, <<"w">> \o SEP \o <<"d">> \o PARQUET \o SEP \o <<"p">> \o GZ)
Files == {File_a, File_w1, File_w2}

NoFile == 0
Contents == {1, 2}
\* A failed COPY may leave a truncated output file behind.
Partial == -1

\* hashlib.md5 of the content: distinct contents, distinct digests.
Digest(c) == <<"md5", c>>
NoHash == <<"md5", NoFile>>

\* DuckDB's COUNT(*) over the written Parquet file.
RecordCount(c) == c

\* ------------------------------------------------------------ path mapping
\* process_entity: rel_path = Path(source_file).relative_to(source_dir);
\* output_file = str(Path(target_dir) / rel_path).replace(".gz", ".parquet")
OutputPath(source_file) ==
    Replace(Join(target_dir, RelativeTo(source_file, source_dir)), GZ, PARQUET)

\* cleanup_orphan_parquets: rel_path = relpath(parquet_file, target_dir);
\* source_file = join(source_dir, rel_path.replace(".parquet", ".gz"))
SourcePath(parquet_file) ==
    Join(source_dir, Replace(RelativeTo(parquet_file, target_dir), PARQUET, GZ))

TargetFiles == {OutputPath(f) : f \in Files}

\* <root>/<entity>/... : the files under one entity's directory.
Under(p, root, entity) == StartsWith(p, Join(root, entity) \o SEP)

VARIABLES
    source,           \* source tree: path -> content (NoFile if absent)
    derived,          \* target tree: path -> content converted (NoFile, Partial)
    processed_files,  \* ledger table: set of rows, file_path is the primary key
    failed_files,     \* ledger table: set of rows, file_path is the primary key
    pc,               \* position of main(): idle, loop, cleanup, scan, summary,
                      \* done, aborted
    files_by_entity,  \* discover_files(): entity -> sequence of paths
    ei, idx,          \* main's current entity, process_entity's current index
    stats,            \* process_entity's stats, per entity
    overall_stats,    \* main's overall_stats
    cl_ei,            \* cleanup's current entity
    parquet_files,    \* cleanup: the glob result still to scan
    cleanup_stats,    \* cleanup's stats
    exit_code,        \* the process's exit status (-1 while running)
    runs, ops,        \* number of runs started, of environment operations
                      \* (and of faults, where a specification has them)
    outcome,          \* history: this run's terminal state of each file
    at_start,         \* history: ledger and target tree when the run started
    hist,             \* history: how the previous run ended, and whether the
                      \* environment was quiet between the two runs
    changed,          \* history: an environment operation since the run ended
    failed_hash,      \* history: the digest whose conversion failed last
    made_from,        \* history: the source file a derived file was written from
    stats_output,     \* main's stats_output: the summary record this run has
                      \* written to logs/etl_stats.json (NoStats: none yet)
    error,            \* the uncaught exception that ended the run, if any
    txn,              \* the open sqlite3 connection's uncommitted transaction
    failures,         \* history: failed attempts of a path in a row, with no
                      \* success and no clear_entity in between
    cleared,          \* history: the entities cleared since the last run started
    normalizer,       \* the SchemaNormalizer: whether it is constructed, whether
                      \* its config file existed, and its rules
    conv              \* the convert_to_parquet call in progress, and what
                      \* process_entity recorded for it

vars == <<source, derived, processed_files, failed_files, pc, files_by_entity,
          ei, idx, stats, overall_stats, cl_ei, parquet_files, cleanup_stats,
          exit_code, runs, ops, outcome, at_start, hist, changed, failed_hash,
          made_from, stats_output, error, txn, failures, cleared, normalizer,
          conv>>

run_vars == <<files_by_entity, ei, idx, stats, overall_stats, cl_ei,
              parquet_files, cleanup_stats, exit_code, runs, outcome, at_start,
              hist, stats_output, error>>

Stopped == pc \in {"idle", "done", "aborted"}

\* ------------------------------------------------------------ StateManager
Row(table, path) == CHOOSE r \in table : r.file_path = path

HasRow(table, path) == \E r \in table : r.file_path = path

\* Faulty variant: the write also prunes the rows of the paths whose source
\* file no longer exists.
InsertOrReplace_pruning(table, row) ==
    {r \in table : r.file_path # row.file_path /\ source[r.file_path] # NoFile}
        \cup {row}

\* INSERT OR REPLACE on a table whose primary key is file_path.
InsertOrReplace(table, row) ==
    {r \in table : r.file_path # row.file_path} \cup {row}

\* Faulty variants of is_processed, against which the properties below are
\* tested: the hash is not compared; a failed_files row counts as "seen".
is_processed_path_only(file_path, file_hash) ==
    {r \in processed_files : r.file_path = file_path} # {}

is_processed_or_failed(file_path, file_hash) ==
    LET result == {r \in processed_files \cup failed_files : r.file_path = file_path}
    IN  IF result # {}
        THEN \/ \E r \in result \cap failed_files : TRUE
             \/ \E r \in result \cap processed_files : r.file_hash = file_hash
        ELSE FALSE

\* StateManager.is_processed: SELECT file_hash ... WHERE file_path = ?;
\* fetchone(); a row: compare its hash; no row: False.
is_processed(file_path, file_hash) ==
    LET result == {r \in processed_files : r.file_path = file_path}
    IN  IF result # {}
        THEN (CHOOSE r \in result : TRUE).file_hash = file_hash
        ELSE FALSE

\* Faulty variants of mark_processed: the DELETE is missing; the hash column
\* is left unset; the DELETE selects by entity_type instead of file_path.
mark_processed_deletes_entity(file_path, file_hash, entity_type, file_size, record_count, output_path) ==
    /\ processed_files' = InsertOrReplace(processed_files,
          [file_path |-> file_path, file_hash |-> file_hash,
           entity_type |-> entity_type, file_size |-> file_size,
           record_count |-> record_count, output_path |-> output_path])
    /\ failed_files' = {r \in failed_files : r.entity_type # entity_type}

mark_processed_keeps_failure(file_path, file_hash, entity_type, file_size, record_count, output_path) ==
    /\ processed_files' = InsertOrReplace(processed_files,
          [file_path |-> file_path, file_hash |-> file_hash,
           entity_type |-> entity_type, file_size |-> file_size,
           record_count |-> record_count, output_path |-> output_path])
    /\ UNCHANGED failed_files

mark_processed_unhashed(file_path, file_hash, entity_type, file_size, record_count, output_path) ==
    /\ processed_files' = InsertOrReplace(processed_files,
          [file_path |-> file_path, file_hash |-> NoHash,
           entity_type |-> entity_type, file_size |-> file_size,
           record_count |-> record_count, output_path |-> output_path])
    /\ failed_files' = {r \in failed_files : r.file_path # file_path}

\* StateManager.mark_processed: one transaction, upsert + delete.
mark_processed(file_path, file_hash, entity_type, file_size, record_count, output_path) ==
    /\ processed_files' = InsertOrReplace(processed_files,
          [file_path |-> file_path, file_hash |-> file_hash,
           entity_type |-> entity_type, file_size |-> file_size,
           record_count |-> record_count, output_path |-> output_path])
    /\ failed_files' = {r \in failed_files : r.file_path # file_path}

\* COALESCE((SELECT retry_count FROM failed_files WHERE file_path = ?), 0)
RetryCount(file_path) ==
    IF HasRow(failed_files, file_path)
    THEN Row(failed_files, file_path).retry_count
    ELSE 0

\* Faulty variants of mark_failed: the COALESCE subquery is missing, every
\* failure stores retry_count 1; the path's processed_files row is deleted.
mark_failed_restarts(file_path, entity_type, error_message) ==
    /\ failed_files' = InsertOrReplace(failed_files,
          [file_path |-> file_path, entity_type |-> entity_type,
           error_message |-> error_message, retry_count |-> 1])
    /\ UNCHANGED processed_files

mark_failed_forgets_success(file_path, entity_type, error_message) ==
    /\ failed_files' = InsertOrReplace(failed_files,
          [file_path |-> file_path, entity_type |-> entity_type,
           error_message |-> error_message,
           retry_count |-> RetryCount(file_path) + 1])
    /\ processed_files' = {r \in processed_files : r.file_path # file_path}

\* StateManager.mark_failed.
mark_failed(file_path, entity_type, error_message) ==
    /\ failed_files' = InsertOrReplace(failed_files,
          [file_path |-> file_path, entity_type |-> entity_type,
           error_message |-> error_message,
           retry_count |-> RetryCount(file_path) + 1])
    /\ UNCHANGED processed_files

RECURSIVE Sum(_, _)
Sum(rows, field) ==
    IF rows = {} THEN 0
    ELSE LET r == CHOOSE x \in rows : TRUE
         IN  r[field] + Sum(rows \ {r}, field)

\* Faulty variant of get_stats_of: the GROUP BY is missing, every entity gets
\* the aggregates of the whole table.
get_stats_of_ungrouped(processed, failed) ==
    [processed |->
        [e \in {r.entity_type : r \in processed} |->
            [files |-> Cardinality(processed),
             records |-> Sum(processed, "record_count"),
             size_bytes |-> Sum(processed, "file_size")]],
     failed |->
        [e \in {r.entity_type : r \in failed} |-> Cardinality(failed)]]

\* StateManager.get_stats over the given tables: GROUP BY entity_type yields
\* a group only for the entity types that have rows.
get_stats_of(processed, failed) ==
    [processed |->
        [e \in {r.entity_type : r \in processed} |->
            LET rows == {r \in processed : r.entity_type = e}
            IN  [files |-> Cardinality(rows),
                 records |-> Sum(rows, "record_count"),
                 size_bytes |-> Sum(rows, "file_size")]],
     failed |->
        [e \in {r.entity_type : r \in failed} |->
            Cardinality({r \in failed : r.entity_type = e})]]

get_stats == get_stats_of(processed_files, failed_files)

\* Faulty variant of clear_entity: the DELETE FROM processed_files is missing.
clear_entity_failed_only(entity_type) ==
    /\ failed_files' = {r \in failed_files : r.entity_type # entity_type}
    /\ UNCHANGED processed_files

\* StateManager.clear_entity.
clear_entity(entity_type) ==
    /\ processed_files' = {r \in processed_files : r.entity_type # entity_type}
    /\ failed_files' = {r \in failed_files : r.entity_type # entity_type}

\* ----------------------------------------------------------------- helpers
\* compute_file_hash: the digest of the file's content; raises if the file
\* cannot be opened.
HashRaises(file_path) == source[file_path] = NoFile

\* Faulty variant of compute_file_hash: the digest does not depend on the
\* content.
compute_file_hash_of_nothing(file_path) == NoHash

compute_file_hash(file_path) == Digest(source[file_path])

\* os.path.getsize.
getsize(file_path) == source[file_path]

\* All orderings of a finite set, as sequences (directory enumeration order).
Orderings(S) ==
    {s \in [1..Cardinality(S) -> S] : \A i, j \in 1..Cardinality(S) : i # j => s[i] # s[j]}

AllOrderings == UNION {Orderings(S) : S \in SUBSET Files}

\* discover_files: entity_path.rglob("*.gz") of each entity.
Discovered(entity) ==
    {p \in Files : source[p] # NoFile /\ Under(p, source_dir, entity) /\ EndsWith(p, GZ)}

\* No summary record written; no connection with an open transaction.
NoStats == [written |-> FALSE]
NoTxn == [open |-> FALSE]

\* self.rules = {} : a dict with no key.
EmptyDict == [e \in {} |-> {}]

\* No SchemaNormalizer yet (main has not reached SchemaNormalizer(...)).
NotConstructed == [loaded |-> FALSE, exists |-> FALSE, rules |-> EmptyDict]

\* No convert_to_parquet call in progress.
NoCall == [at |-> "idle", entity_type |-> <<>>, file |-> <<>>,
           described |-> "no", columns |-> <<>>, path |-> "none",
           select |-> <<>>, written |-> FALSE, output |-> <<>>,
           raised |-> "none", result |-> "none"]

ZeroStats(n) == [total |-> n, new |-> 0, skipped |-> 0, processed |-> 0, failed |-> 0]

TypeOK ==
    /\ source \in [Files -> {NoFile} \cup Contents]
    /\ derived \in [TargetFiles -> {NoFile, Partial} \cup Contents]
    /\ pc \in {"idle", "loop", "cleanup", "scan", "summary", "done", "aborted"}
    /\ \A r \in processed_files : r.file_path \in Files
    /\ \A r \in failed_files : r.file_path \in Files /\ r.retry_count \in 1..MaxRetry
    /\ runs \in 0..MaxRuns
    /\ ops \in 0..MaxOps

Init ==
    /\ source = [f \in Files |-> 1]
    /\ derived = [d \in TargetFiles |-> NoFile]
    /\ processed_files = {}
    /\ failed_files = {}
    /\ pc = "idle"
    /\ files_by_entity = [i \in EntityIdx |-> <<>>]
    /\ ei = 0
    /\ idx = 0
    /\ stats = [i \in EntityIdx |-> ZeroStats(0)]
    /\ overall_stats = [total_files |-> 0, new_files |-> 0, processed |-> 0,
                        skipped |-> 0, failed |-> 0]
    /\ cl_ei = 0
    /\ parquet_files = <<>>
    /\ cleanup_stats = [scanned |-> 0, removed |-> 0, kept |-> 0, errors |-> 0]
    /\ exit_code = -1
    /\ runs = 0
    /\ ops = 0
    /\ outcome = [f \in Files |-> "none"]
    /\ at_start = [processed |-> {}, failed |-> {}, derived |-> derived,
                    cleared |-> {}]
    /\ hist = [prev |-> "none", quiet |-> FALSE]
    /\ changed = FALSE
    /\ failed_hash = [f \in Files |-> NoHash]
    /\ made_from = [d \in TargetFiles |-> <<>>]
    /\ stats_output = NoStats
    /\ error = "none"
    /\ txn = NoTxn
    /\ failures = [f \in Files |-> 0]
    /\ cleared = {}
    /\ normalizer = NotConstructed
    /\ conv = NoCall

\* ------------------------------------------------------------------ main()
Min(S) == CHOOSE x \in S : \A y \in S : x <= y

RECURSIVE SumLen(_, _)
SumLen(fbe, i) == IF i = 0 THEN 0 ELSE Len(fbe[i]) + SumLen(fbe, i - 1)

PrevRun ==
    IF pc = "done" THEN (IF exit_code = 0 THEN "clean" ELSE "failed")
    ELSE IF pc = "aborted" THEN "aborted" ELSE "none"

\* Once main() has exited, its local variables are gone: an environment
\* operation between two runs leaves only the file trees, the ledger and the
\* exit status (pc, exit_code) behind.
ForgetRun ==
    /\ files_by_entity' = [i \in EntityIdx |-> <<>>]
    /\ ei' = 0
    /\ idx' = 0
    /\ stats' = [i \in EntityIdx |-> ZeroStats(0)]
    /\ overall_stats' = [total_files |-> 0, new_files |-> 0, processed |-> 0,
                         skipped |-> 0, failed |-> 0]
    /\ cl_ei' = 0
    /\ parquet_files' = <<>>
    /\ cleanup_stats' = [scanned |-> 0, removed |-> 0, kept |-> 0, errors |-> 0]
    /\ outcome' = [f \in Files |-> "none"]
    /\ at_start' = [processed |-> {}, failed |-> {},
                     derived |-> [d \in TargetFiles |-> NoFile], cleared |-> {}]
    /\ hist' = [prev |-> "none", quiet |-> FALSE]
    /\ stats_output' = NoStats
    /\ UNCHANGED <<exit_code, runs, error>>

\* main() up to the conversion loop: StateManager and SchemaNormalizer are
\* opened, discover_files() lists the source tree, overall_stats is zeroed.
StartRun ==
    /\ Stopped
    /\ runs < MaxRuns
    /\ \E fbe \in [EntityIdx -> AllOrderings] :
          /\ \A i \in EntityIdx : fbe[i] \in Orderings(Discovered(entity_types[i]))
          /\ files_by_entity' = fbe
          /\ stats' = [i \in EntityIdx |-> ZeroStats(Len(fbe[i]))]
          /\ overall_stats' = [total_files |-> SumLen(fbe, Len(entity_types)),
                               new_files |-> 0, processed |-> 0, skipped |-> 0,
                               failed |-> 0]
          /\ LET withFiles == {i \in EntityIdx : fbe[i] # <<>>}
             IN  IF withFiles = {}
                 THEN pc' = "cleanup" /\ ei' = 0 /\ idx' = 0
                 ELSE pc' = "loop" /\ ei' = Min(withFiles) /\ idx' = 1
    /\ cl_ei' = 0
    /\ parquet_files' = <<>>
    /\ cleanup_stats' = [scanned |-> 0, removed |-> 0, kept |-> 0, errors |-> 0]
    /\ exit_code' = -1
    /\ runs' = runs + 1
    /\ outcome' = [f \in Files |-> "none"]
    /\ at_start' = [processed |-> processed_files, failed |-> failed_files,
                    derived |-> derived, cleared |-> cleared]
    /\ hist' = [prev |-> PrevRun, quiet |-> ~changed]
    /\ changed' = FALSE
    /\ stats_output' = NoStats
    /\ error' = "none"
    /\ cleared' = {}
    /\ UNCHANGED <<source, derived, processed_files, failed_files, ops,
                   failed_hash, made_from, txn, normalizer, conv, failures>>

\* ---------------------------------------------------------- process_entity
source_file == files_by_entity[ei][idx]
entity_type == entity_types[ei]

\* Faulty variant of Advance: main() assigns the entity's stats to
\* overall_stats where it should add them.
Advance_assigns(st) ==
    /\ stats' = [stats EXCEPT ![ei] = st]
    /\ IF idx < Len(files_by_entity[ei])
       THEN /\ idx' = idx + 1
            /\ UNCHANGED <<ei, pc, overall_stats>>
       ELSE /\ overall_stats' =
                  [overall_stats EXCEPT !.new_files = st.new,
                                        !.processed = st.processed,
                                        !.skipped = st.skipped,
                                        !.failed = st.failed]
            /\ LET rest == {j \in EntityIdx : j > ei /\ files_by_entity[j] # <<>>}
               IN  IF rest # {}
                   THEN ei' = Min(rest) /\ idx' = 1 /\ pc' = "loop"
                   ELSE pc' = "cleanup" /\ UNCHANGED <<ei, idx>>

\* Faulty variant of Advance: the loop does not move on to the next file of
\* the entity, it takes the same file again until the last one is reached.
Advance_repeats(st) ==
    /\ stats' = [stats EXCEPT ![ei] = st]
    /\ IF idx < Len(files_by_entity[ei]) /\ st.skipped + st.new < 2
       THEN /\ idx' = idx
            /\ UNCHANGED <<ei, pc, overall_stats>>
       ELSE /\ overall_stats' =
                  [overall_stats EXCEPT !.new_files = @ + st.new,
                                        !.processed = @ + st.processed,
                                        !.skipped = @ + st.skipped,
                                        !.failed = @ + st.failed]
            /\ LET rest == {j \in EntityIdx : j > ei /\ files_by_entity[j] # <<>>}
               IN  IF rest # {}
                   THEN ei' = Min(rest) /\ idx' = 1 /\ pc' = "loop"
                   ELSE pc' = "cleanup" /\ UNCHANGED <<ei, idx>>

\* The end of one iteration of process_entity's loop: the next file of the
\* entity, or the return to main(), which adds the entity's stats to
\* overall_stats and goes on to the next entity that has files, or to cleanup.
Advance(st) ==
    /\ stats' = [stats EXCEPT ![ei] = st]
    /\ IF idx < Len(files_by_entity[ei])
       THEN /\ idx' = idx + 1
            /\ UNCHANGED <<ei, pc, overall_stats>>
       ELSE /\ overall_stats' =
                  [overall_stats EXCEPT !.new_files = @ + st.new,
                                        !.processed = @ + st.processed,
                                        !.skipped = @ + st.skipped,
                                        !.failed = @ + st.failed]
            /\ LET rest == {j \in EntityIdx : j > ei /\ files_by_entity[j] # <<>>}
               IN  IF rest # {}
                   THEN ei' = Min(rest) /\ idx' = 1 /\ pc' = "loop"
                   ELSE pc' = "cleanup" /\ UNCHANGED <<ei, idx>>

loop_frame == <<files_by_entity, cl_ei, parquet_files, cleanup_stats, runs,
                at_start, hist, source, ops, changed, stats_output, txn,
                normalizer, conv, cleared>>

\* The same but ops, for the steps that count as an operation.
engine_frame == <<files_by_entity, cl_ei, parquet_files, cleanup_stats, runs,
                  at_start, hist, source, changed, stats_output, txn,
                  normalizer, conv, cleared>>

\* compute_file_hash / os.path.getsize raise (the file is gone): nothing in
\* process_entity or main() catches it, the process ends with a traceback.
FingerprintRaises ==
    /\ pc = "loop"
    /\ HashRaises(source_file)
    /\ pc' = "aborted"
    /\ exit_code' = 1
    /\ error' = "OSError"
    /\ UNCHANGED <<derived, processed_files, failed_files, ei, idx, stats,
                   overall_stats, outcome, failed_hash, made_from, failures>>
    /\ UNCHANGED loop_frame

\* is_processed(source_file, file_hash): stats["skipped"] += 1; continue
SkipFile ==
    /\ pc = "loop"
    /\ ~HashRaises(source_file)
    /\ is_processed(source_file, compute_file_hash(source_file))
    /\ outcome' = [outcome EXCEPT ![source_file] = "SKIPPED"]
    /\ Advance([stats[ei] EXCEPT !.skipped = @ + 1])
    /\ UNCHANGED <<derived, processed_files, failed_files, exit_code,
                   failed_hash, made_from, error, failures>>
    /\ UNCHANGED loop_frame

\* convert_to_parquet returns (True, record_count, ""): the engine has
\* written output_file; mark_processed.
ConvertOk ==
    /\ pc = "loop"
    /\ ~HashRaises(source_file)
    /\ ~is_processed(source_file, compute_file_hash(source_file))
    /\ LET output_file == OutputPath(source_file)
           record_count == RecordCount(source[source_file])
       IN  /\ derived' = [derived EXCEPT ![output_file] = source[source_file]]
           /\ made_from' = [made_from EXCEPT ![output_file] = source_file]
           /\ mark_processed(source_file, compute_file_hash(source_file),
                             entity_type, getsize(source_file), record_count,
                             output_file)
    /\ outcome' = [outcome EXCEPT ![source_file] = "PROCESSED"]
    /\ failed_hash' = [failed_hash EXCEPT ![source_file] = NoHash]
    /\ failures' = [failures EXCEPT ![source_file] = 0]
    /\ Advance([stats[ei] EXCEPT !.new = @ + 1, !.processed = @ + 1])
    /\ UNCHANGED <<exit_code, error>>
    /\ UNCHANGED loop_frame

\* Faulty variant of AfterFailure: the loop is left at the first failure
\* (break), the rest of the entity's files is not attempted.
AfterFailure_break(st) ==
    /\ stats' = [stats EXCEPT ![ei] = st]
    /\ overall_stats' =
          [overall_stats EXCEPT !.new_files = @ + st.new,
                                !.processed = @ + st.processed,
                                !.skipped = @ + st.skipped,
                                !.failed = @ + st.failed]
    /\ LET rest == {j \in EntityIdx : j > ei /\ files_by_entity[j] # <<>>}
       IN  IF rest # {}
           THEN ei' = Min(rest) /\ idx' = 1 /\ pc' = "loop"
           ELSE pc' = "cleanup" /\ UNCHANGED <<ei, idx>>

\* After a failed conversion process_entity records the failure and goes on.
AfterFailure(st) == Advance(st)

\* convert_to_parquet returns (False, 0, str(e)): the engine raised, before
\* writing anything (written = "nothing"), after it had started to write
\* output_file (written = "truncated"), or in the count query, after COPY
\* had written all of output_file (written = "complete"); mark_failed.
\* A failure that leaves output behind is counted in ops, as the operations
\* of the environment are.
ConvertFailWith(written) ==
    /\ pc = "loop"
    /\ ~HashRaises(source_file)
    /\ ~is_processed(source_file, compute_file_hash(source_file))
    /\ RetryCount(source_file) < MaxRetry
    /\ LET output_file == OutputPath(source_file)
       IN  IF written = "nothing"
           THEN UNCHANGED <<derived, made_from>>
           ELSE /\ derived' = [derived EXCEPT ![output_file] =
                                  IF written = "truncated" THEN Partial
                                  ELSE source[source_file]]
                /\ made_from' = [made_from EXCEPT ![output_file] = source_file]
    /\ mark_failed(source_file, entity_type, "error")
    /\ outcome' = [outcome EXCEPT ![source_file] = "FAILED"]
    /\ failed_hash' = [failed_hash EXCEPT ![source_file] = compute_file_hash(source_file)]
    /\ failures' = [failures EXCEPT ![source_file] = @ + 1]
    /\ AfterFailure([stats[ei] EXCEPT !.new = @ + 1, !.failed = @ + 1])
    /\ UNCHANGED <<exit_code, error>>
    /\ IF written = "nothing"
       THEN ops' = ops
       ELSE ops < MaxOps /\ ops' = ops + 1
    /\ UNCHANGED engine_frame

ConvertFail == ConvertFailWith("nothing")

ConvertFailTruncated == ConvertFailWith("truncated")

ConvertFailAfterCopy == ConvertFailWith("complete")

\* ------------------------------------------------- cleanup_orphan_parquets
\* glob(f"{target_dir}/{entity_type}/**/*.parquet", recursive=True)
GlobIn(tree, entity) ==
    {d \in TargetFiles :
        tree[d] # NoFile /\ Under(d, target_dir, entity) /\ EndsWith(d, PARQUET)}

\* for entity_type in entity_types: parquet_files = glob(...); if not
\* parquet_files: continue.  The next entity after `from` whose glob is not
\* empty, with its files in some enumeration order; or the end of the pass.
NextGlob(from, tree) ==
    LET rest == {j \in EntityIdx : j > from /\ GlobIn(tree, entity_types[j]) # {}}
    IN  IF rest # {}
        THEN /\ cl_ei' = Min(rest)
             /\ parquet_files' \in Orderings(GlobIn(tree, entity_types[Min(rest)]))
             /\ pc' = "scan"
        ELSE /\ cl_ei' = from
             /\ parquet_files' = <<>>
             /\ pc' = "summary"

cleanup_frame == <<source, processed_files, failed_files, files_by_entity, ei,
                   idx, stats, overall_stats, exit_code, runs, ops, outcome,
                   at_start, hist, changed, failed_hash, stats_output, error,
                   txn, normalizer, conv, failures, cleared>>

CleanupStart ==
    /\ pc = "cleanup"
    /\ NextGlob(0, derived)
    /\ UNCHANGED <<derived, made_from, cleanup_stats>>
    /\ UNCHANGED cleanup_frame

parquet_file == Head(parquet_files)

\* The end of one iteration of the scan.
ScanNext(tree) ==
    IF Len(parquet_files) > 1
    THEN parquet_files' = Tail(parquet_files) /\ UNCHANGED <<cl_ei, pc>>
    ELSE NextGlob(cl_ei, tree)

\* Faulty variant of SourceExists: the ledger is asked whether the derived
\* file belongs to a processed source file.
SourceExists_per_ledger(d) == \E r \in processed_files : r.output_path = d

\* The orphan test: os.path.exists(source_file) of the reverse-mapped path.
SourceExists(d) ==
    LET src == SourcePath(d) IN src \in Files /\ source[src] # NoFile

CleanupKeep ==
    /\ pc = "scan"
    /\ SourceExists(parquet_file)
    /\ cleanup_stats' = [cleanup_stats EXCEPT !.scanned = @ + 1, !.kept = @ + 1]
    /\ ScanNext(derived)
    /\ UNCHANGED <<derived, made_from>>
    /\ UNCHANGED cleanup_frame

CleanupRemove ==
    /\ pc = "scan"
    /\ ~SourceExists(parquet_file)
    /\ derived' = [derived EXCEPT ![parquet_file] = NoFile]
    /\ made_from' = [made_from EXCEPT ![parquet_file] = <<>>]
    /\ cleanup_stats' = [cleanup_stats EXCEPT !.scanned = @ + 1, !.removed = @ + 1]
    /\ ScanNext(derived')
    /\ UNCHANGED cleanup_frame

\* Faulty variant of AfterDeletionError: the exception ends the pass.
AfterDeletionError_halt(tree) ==
    /\ pc' = "summary"
    /\ parquet_files' = <<>>
    /\ UNCHANGED cl_ei

\* except Exception inside the for loop: the loop goes on with the next file.
AfterDeletionError(tree) == ScanNext(tree)

\* os.remove raises: logged, stats["errors"] += 1.
CleanupError ==
    /\ pc = "scan"
    /\ ~SourceExists(parquet_file)
    /\ cleanup_stats' = [cleanup_stats EXCEPT !.scanned = @ + 1, !.errors = @ + 1]
    /\ AfterDeletionError(derived)
    /\ UNCHANGED <<derived, made_from>>
    /\ UNCHANGED cleanup_frame

\* sum(stats["records"] for stats in cumulative_stats["processed"].values())
RECURSIVE SumRecords(_, _)
SumRecords(by_entity, entities) ==
    IF entities = {} THEN 0
    ELSE LET e == CHOOSE x \in entities : TRUE
         IN  by_entity[e].records + SumRecords(by_entity, entities \ {e})

\* main(): the stats_output dictionary (duration_seconds and timestamp are
\* left out).
SummaryRecord(cumulative_stats) ==
    [written |-> TRUE,
     success |-> overall_stats.failed = 0,
     files_processed |-> overall_stats.processed,
     files_skipped |-> overall_stats.skipped,
     files_failed |-> overall_stats.failed,
     records_added |-> SumRecords(cumulative_stats.processed,
                                  DOMAIN cumulative_stats.processed),
     orphans_removed |-> cleanup_stats.removed,
     orphans_scanned |-> cleanup_stats.scanned,
     entity_stats |-> [e \in DOMAIN cumulative_stats.processed |->
                         [files |-> cumulative_stats.processed[e].files,
                          records |-> cumulative_stats.processed[e].records]]]

\* main() after cleanup: the summary, the record written to etl_stats.json,
\* then sys.exit(1) if any file failed in this run and sys.exit(0) otherwise.
Finish ==
    /\ pc = "summary"
    /\ pc' = "done"
    /\ stats_output' = SummaryRecord(get_stats)
    /\ exit_code' = IF overall_stats.failed > 0 THEN 1 ELSE 0
    /\ UNCHANGED <<source, derived, processed_files, failed_files,
                   files_by_entity, ei, idx, stats, overall_stats, cl_ei,
                   parquet_files, cleanup_stats, runs, ops, outcome, at_start,
                   hist, changed, failed_hash, made_from, error, txn,
                   normalizer, conv, failures,
                   cleared>>

\* ------------------------------------------------------------- environment
\* The files the loop has not reached yet.
Pending ==
    IF pc # "loop" THEN {}
    ELSE {files_by_entity[ei][k] : k \in idx..Len(files_by_entity[ei])}
         \cup UNION {{files_by_entity[j][k] : k \in 1..Len(files_by_entity[j])} :
                       j \in {i \in EntityIdx : i > ei}}

\* The producer writes a new file, or new content into an existing one.
ProducerWrite ==
    /\ Stopped
    /\ ops < MaxOps
    /\ \E f \in Files, c \in Contents :
          /\ source[f] # c
          /\ source' = [source EXCEPT ![f] = c]
    /\ ops' = ops + 1
    /\ changed' = TRUE
    /\ UNCHANGED <<derived, processed_files, failed_files, pc, failed_hash,
                   made_from, txn, normalizer, conv, failures, cleared>>
    /\ ForgetRun

\* The producer deletes a file: between runs, or after discovery and before
\* the loop fingerprints it.
ProducerDelete ==
    /\ ops < MaxOps
    /\ \E f \in Files :
          /\ source[f] # NoFile
          /\ Stopped \/ f \in Pending
          /\ source' = [source EXCEPT ![f] = NoFile]
    /\ ops' = ops + 1
    /\ changed' = TRUE
    /\ UNCHANGED <<derived, processed_files, failed_files, pc, failed_hash,
                   made_from, txn, normalizer, conv, failures, cleared>>
    /\ IF Stopped THEN ForgetRun ELSE UNCHANGED run_vars

\* The operator forces the reconversion of one entity.
ClearEntity ==
    /\ Stopped
    /\ ops < MaxOps
    /\ \E i \in EntityIdx :
          /\ \E r \in processed_files \cup failed_files : r.entity_type = entity_types[i]
          /\ clear_entity(entity_types[i])
          /\ failed_hash' = [f \in Files |->
                IF Under(f, source_dir, entity_types[i]) THEN NoHash ELSE failed_hash[f]]
          /\ failures' = [f \in Files |->
                IF Under(f, source_dir, entity_types[i]) THEN 0 ELSE failures[f]]
          /\ cleared' = cleared \cup {i}
    /\ ops' = ops + 1
    /\ changed' = TRUE
    /\ UNCHANGED <<source, derived, pc, made_from, txn, normalizer, conv>>
    /\ ForgetRun

Next ==
    \/ StartRun
    \/ FingerprintRaises
    \/ SkipFile
    \/ ConvertOk
    \/ ConvertFail
    \/ CleanupStart
    \/ CleanupKeep
    \/ CleanupRemove
    \/ CleanupError
    \/ Finish
    \/ ProducerWrite
    \/ ProducerDelete
    \/ ClearEntity

Spec == Init /\ [][Next]_vars

\* A step of the program itself: of main(), process_entity or
\* cleanup_orphan_parquets, once a run has been started.
RunStep ==
    \/ FingerprintRaises
    \/ SkipFile
    \/ ConvertOk
    \/ ConvertFail
    \/ CleanupStart
    \/ CleanupKeep
    \/ CleanupRemove
    \/ CleanupError
    \/ Finish

\* The program is sequential and every call it makes returns or raises: a
\* started run keeps taking its next step.
SpecFair == Spec /\ WF_vars(RunStep)

\* The same program with an engine that may also fail after it has started to
\* write the output file, or after it has written all of it.
NextTruncating == Next \/ ConvertFailTruncated \/ ConvertFailAfterCopy

SpecTruncating == Init /\ [][NextTruncating]_vars

\* ----------------------------------------------------- ledger I/O failure
\* Faulty variant of OnLedgerError: the exception is caught and logged, the
\* loop goes on with the next file.
OnLedgerError_continue(st) ==
    /\ error' = "sqlite3.Error"
    /\ Advance(st)
    /\ UNCHANGED exit_code

\* A StateManager call raises (database unavailable): nothing in
\* process_entity or main() catches it, the process ends with a traceback and
\* a non-zero status; process_entity's stats are lost with it.
OnLedgerError(st) ==
    /\ error' = "sqlite3.Error"
    /\ pc' = "aborted"
    /\ exit_code' = 1
    /\ stats' = [stats EXCEPT ![ei] = st]
    /\ UNCHANGED <<ei, idx, overall_stats>>

\* The database becoming unavailable is an operation of the environment.
fault_frame == <<files_by_entity, cl_ei, parquet_files, cleanup_stats, runs,
                 at_start, hist, source, changed, stats_output, txn,
                 normalizer, conv, cleared>>

\* state_mgr.is_processed raises.
IsProcessedRaises ==
    /\ pc = "loop"
    /\ ~HashRaises(source_file)
    /\ OnLedgerError(stats[ei])
    /\ UNCHANGED <<derived, processed_files, failed_files, outcome, failed_hash,
                   made_from, failures>>
    /\ ops < MaxOps
    /\ ops' = ops + 1
    /\ UNCHANGED fault_frame

\* convert_to_parquet has written output_file; state_mgr.mark_processed
\* raises, its transaction is rolled back.
MarkProcessedRaises ==
    /\ pc = "loop"
    /\ ~HashRaises(source_file)
    /\ ~is_processed(source_file, compute_file_hash(source_file))
    /\ LET output_file == OutputPath(source_file)
       IN  /\ derived' = [derived EXCEPT ![output_file] = source[source_file]]
           /\ made_from' = [made_from EXCEPT ![output_file] = source_file]
    /\ OnLedgerError([stats[ei] EXCEPT !.new = @ + 1])
    /\ UNCHANGED <<processed_files, failed_files, outcome, failed_hash, failures>>
    /\ ops < MaxOps
    /\ ops' = ops + 1
    /\ UNCHANGED fault_frame

\* convert_to_parquet has failed; state_mgr.mark_failed raises.
MarkFailedRaises ==
    /\ pc = "loop"
    /\ ~HashRaises(source_file)
    /\ ~is_processed(source_file, compute_file_hash(source_file))
    /\ OnLedgerError([stats[ei] EXCEPT !.new = @ + 1])
    /\ UNCHANGED <<derived, processed_files, failed_files, outcome, failed_hash,
                   made_from, failures>>
    /\ ops < MaxOps
    /\ ops' = ops + 1
    /\ UNCHANGED fault_frame

NextLedgerFaults ==
    \/ Next
    \/ IsProcessedRaises
    \/ MarkProcessedRaises
    \/ MarkFailedRaises

\* The program with a ledger whose calls may raise (at most MaxOps times,
\* the producer's and the operator's operations included).
SpecLedgerFaults == Init /\ [][NextLedgerFaults]_vars

\* ------------------------------------- StateManager, statement by statement
\* A call of a StateManager method that writes, as process_entity makes it
\* (mark_processed, mark_failed) or the operator (clear_entity).
EntityOf(f) == CHOOSE e \in {entity_types[i] : i \in EntityIdx} : Under(f, source_dir, e)

NoPath == <<>>

Calls ==
    {[method |-> "mark_processed", file_path |-> f, file_hash |-> Digest(c),
      entity_type |-> EntityOf(f), file_size |-> c, record_count |-> RecordCount(c),
      output_path |-> OutputPath(f), error_message |-> ""] : f \in Files, c \in Contents}
    \cup
    {[method |-> "mark_failed", file_path |-> f, file_hash |-> NoHash,
      entity_type |-> EntityOf(f), file_size |-> 0, record_count |-> 0,
      output_path |-> NoPath, error_message |-> "error"] : f \in Files}
    \cup
    {[method |-> "clear_entity", file_path |-> NoPath, file_hash |-> NoHash,
      entity_type |-> entity_types[i], file_size |-> 0, record_count |-> 0,
      output_path |-> NoPath, error_message |-> ""] : i \in EntityIdx}

\* The number of conn.execute() calls of the method before its conn.commit().
NumStatements(method) ==
    CASE method = "mark_processed" -> 2
      [] method = "mark_failed" -> 1
      [] method = "clear_entity" -> 2

\* The k-th conn.execute() of the call, applied to the tables as the
\* connection sees them.
Execute(call, k, processed, failed) ==
    CASE call.method = "mark_processed" /\ k = 1 ->
            [processed |-> InsertOrReplace(processed,
                [file_path |-> call.file_path, file_hash |-> call.file_hash,
                 entity_type |-> call.entity_type, file_size |-> call.file_size,
                 record_count |-> call.record_count, output_path |-> call.output_path]),
             failed |-> failed]
      [] call.method = "mark_processed" /\ k = 2 ->
            [processed |-> processed,
             failed |-> {r \in failed : r.file_path # call.file_path}]
      [] call.method = "mark_failed" ->
            [processed |-> processed,
             failed |-> InsertOrReplace(failed,
                [file_path |-> call.file_path, entity_type |-> call.entity_type,
                 error_message |-> call.error_message,
                 retry_count |->
                    (IF HasRow(failed, call.file_path)
                     THEN Row(failed, call.file_path).retry_count ELSE 0) + 1])]
      [] call.method = "clear_entity" /\ k = 1 ->
            [processed |-> {r \in processed : r.entity_type # call.entity_type},
             failed |-> failed]
      [] call.method = "clear_entity" /\ k = 2 ->
            [processed |-> processed,
             failed |-> {r \in failed : r.entity_type # call.entity_type}]

\* Faulty variant of Uncommitted: the connection is in autocommit mode, every
\* statement reaches the database file at once.
Uncommitted_autocommit(processed, failed) ==
    /\ processed_files' = processed
    /\ failed_files' = failed

\* sqlite3 opens a transaction before the first INSERT / DELETE of a
\* connection: what the statements write stays in the transaction, the
\* database file and every other connection keep the committed tables.
Uncommitted(processed, failed) == UNCHANGED <<processed_files, failed_files>>

ledger_frame == <<source, derived, pc, files_by_entity, ei, idx, stats,
                  overall_stats, cl_ei, parquet_files, cleanup_stats, exit_code,
                  runs, ops, outcome, at_start, hist, changed, failed_hash,
                  made_from, stats_output, error, failures, cleared, normalizer,
                  conv>>

\* with sqlite3.connect(self.db_path) as conn: of a writing method.
LedgerCall ==
    /\ ~txn.open
    /\ \E call \in Calls :
          /\ call.method = "mark_failed" => RetryCount(call.file_path) < MaxRetry
          /\ txn' = [open |-> TRUE, call |-> call, executed |-> 0,
                     processed |-> processed_files, failed |-> failed_files]
    /\ UNCHANGED <<processed_files, failed_files>>
    /\ UNCHANGED ledger_frame

\* conn.execute(...)
LedgerExecute ==
    /\ txn.open
    /\ txn.executed < NumStatements(txn.call.method)
    /\ LET view == Execute(txn.call, txn.executed + 1, txn.processed, txn.failed)
       IN  /\ txn' = [txn EXCEPT !.executed = @ + 1,
                                 !.processed = view.processed,
                                 !.failed = view.failed]
           /\ Uncommitted(view.processed, view.failed)
    /\ UNCHANGED ledger_frame

\* conn.commit(): the transaction becomes the content of the database file,
\* in one atomic step.
LedgerCommit ==
    /\ txn.open
    /\ txn.executed = NumStatements(txn.call.method)
    /\ processed_files' = txn.processed
    /\ failed_files' = txn.failed
    /\ txn' = NoTxn
    /\ UNCHANGED ledger_frame

\* The process dies inside the method (or a statement raises and the with
\* block rolls back): the transaction is gone, the database file holds the
\* committed tables.
LedgerCrash ==
    /\ txn.open
    /\ txn' = NoTxn
    /\ UNCHANGED <<processed_files, failed_files>>
    /\ UNCHANGED ledger_frame

NextLedger ==
    \/ LedgerCall
    \/ LedgerExecute
    \/ LedgerCommit
    \/ LedgerCrash

\* The StateManager alone, its writing methods called in any order and
\* interrupted at any statement.
SpecLedger == Init /\ [][NextLedger]_vars

\* ---------------------------------------------------- schema normalization
\* Bound: the largest number of columns of a source file.
MaxColumns == 2

\* Column names: a plain one, one of the names build_select_clause quotes,
\* and a reserved word of the engine that it does not quote.
Columns == {"id", "type", "order"}

\* The type read_json_auto infers for a column of a file: a nested one or
\* text (the same column differs from file to file).
Types == {"STRUCT", "VARCHAR"}

\* The entities the config file may have an entry for.
ConfiguredEntities == {<<"w">>}

\* One entry of the config file; a JSON list is modelled by the set of its
\* elements (the code reads it with set() and bool() only).
RuleEntries == [columns_to_varchar : SUBSET Columns,
                struct_columns_to_json : SUBSET Columns]

\* What json.load may return: an entry for some of the entities.
Configs == UNION {[S -> RuleEntries] : S \in SUBSET ConfiguredEntities}

\* A file's schema: columns of distinct names, in the file's order.
Schemas ==
    {s \in UNION {[1..n -> [name : Columns, type : Types]] : n \in 0..MaxColumns} :
        \A i, j \in 1..Len(s) : i # j => s[i].name # s[j].name}

Names(schema) == [i \in 1..Len(schema) |-> schema[i].name]

\* The elements of s at the positions of S, in the order of s.
RECURSIVE Pick(_, _)
Pick(s, S) ==
    IF s = <<>> THEN <<>>
    ELSE LET rest == Pick(Tail(s), {i - 1 : i \in S \ {1}})
         IN  IF 1 \in S THEN <<Head(s)>> \o rest ELSE rest

\* SchemaNormalizer.get_normalization_rules
get_normalization_rules(self, etype) ==
    IF etype \in DOMAIN self.rules
    THEN self.rules[etype]
    ELSE [columns_to_varchar |-> {}, struct_columns_to_json |-> {}]

\* Faulty variant: only columns_to_varchar is looked at.
needs_normalization_varchar_only(self, etype) ==
    get_normalization_rules(self, etype).columns_to_varchar # {}

\* SchemaNormalizer.needs_normalization
needs_normalization(self, etype) ==
    LET rules == get_normalization_rules(self, etype)
    IN  rules.columns_to_varchar # {} \/ rules.struct_columns_to_json # {}

\* The names build_select_clause puts in double quotes.
QuotedNames == {"type", "year", "source", "domain", "version"}

\* The body of build_select_clause's loop: the select part of one column.
\* expr is the expression around the column reference, quoted tells whether
\* the reference is in double quotes, alias is the name after AS.
SelectPart(cols_to_varchar, cols_to_json, col) ==
    [expr |-> IF col \in cols_to_varchar THEN "CAST"
              ELSE IF col \in cols_to_json THEN "to_json"
              ELSE "as-is",
     col |-> col,
     quoted |-> col \in QuotedNames,
     alias |-> col]

\* Faulty variant: a filter, only the columns a rule names are selected.
build_select_clause_filter(self, etype, columns) ==
    LET rules == get_normalization_rules(self, etype)
        cols_to_varchar == rules.columns_to_varchar
        cols_to_json == rules.struct_columns_to_json
        named == {i \in 1..Len(columns) :
                     columns[i] \in cols_to_varchar \cup cols_to_json}
        kept == Pick(columns, named)
    IN  [i \in 1..Len(kept) |-> SelectPart(cols_to_varchar, cols_to_json, kept[i])]

\* SchemaNormalizer.build_select_clause: the select parts in the order of
\* ", ".join(select_parts), one record per part.
build_select_clause(self, etype, columns) ==
    LET rules == get_normalization_rules(self, etype)
        cols_to_varchar == rules.columns_to_varchar
        cols_to_json == rules.struct_columns_to_json
    IN  [i \in 1..Len(columns) |->
            SelectPart(cols_to_varchar, cols_to_json, columns[i])]

\* The engine's reserved words among Columns: an unquoted reference to one
\* of them does not parse.
ReservedWords == {"order"}

Parses(select) ==
    \A i \in 1..Len(select) :
        select[i].col \in ReservedWords => select[i].quoted

\* The schema the engine writes for SELECT <select> over a file: a part of
\* a column the file lacks is left out here, such a query does not run.
RECURSIVE Project(_, _)
Project(schema, select) ==
    IF select = <<>> THEN <<>>
    ELSE LET part == Head(select)
             at == {i \in 1..Len(schema) : schema[i].name = part.col}
             rest == Project(schema, Tail(select))
         IN  IF at = {} THEN rest
             ELSE <<[name |-> part.alias,
                     type |-> IF part.expr = "as-is"
                              THEN schema[CHOOSE i \in at : TRUE].type
                              ELSE "VARCHAR"]>> \o rest

norm_frame == <<source, derived, processed_files, failed_files, pc,
                files_by_entity, ei, idx, stats, overall_stats, cl_ei,
                parquet_files, cleanup_stats, exit_code, runs, ops, outcome,
                at_start, hist, changed, failed_hash, made_from, stats_output,
                error, txn, failures, cleared>>

\* SchemaNormalizer.__init__ and _load_config.
LoadConfig ==
    /\ ~normalizer.loaded
    /\ \E exists \in BOOLEAN :
          \E loaded \in (IF exists THEN Configs ELSE {EmptyDict}) :
             normalizer' = [loaded |-> TRUE, exists |-> exists, rules |-> loaded]
    /\ UNCHANGED conv
    /\ UNCHANGED norm_frame

\* convert_to_parquet is called for a file of an entity, up to the test
\* of needs_normalization: the plain query is built when it is false.
ConvertCall ==
    /\ normalizer.loaded
    /\ conv.at = "idle"
    /\ \E etype \in Entities, file \in Schemas :
          conv' = [NoCall EXCEPT
                     !.entity_type = etype,
                     !.file = file,
                     !.at = IF needs_normalization(normalizer, etype)
                            THEN "describe" ELSE "execute",
                     !.path = IF needs_normalization(normalizer, etype)
                              THEN "none" ELSE "plain"]
    /\ UNCHANGED normalizer
    /\ UNCHANGED norm_frame

\* Faulty variant: no columns fails the file, no conversion is attempted.
Fallback_fails(described) ==
    conv' = [conv EXCEPT !.at = "returned", !.described = described,
                         !.raised = "describe", !.result = "FAILED"]

\* if not columns: the query without normalization, errors ignored.
Fallback(described) ==
    conv' = [conv EXCEPT !.at = "execute", !.described = described,
                         !.path = "fallback"]

\* The branch on the columns get_columns_from_json returned.
WithColumns(described, columns) ==
    IF columns = <<>>
    THEN Fallback(described)
    ELSE conv' = [conv EXCEPT
                    !.at = "execute",
                    !.described = described,
                    !.columns = columns,
                    !.path = "normalized",
                    !.select = build_select_clause(normalizer, conv.entity_type,
                                                   columns)]

\* get_columns_from_json returns what DESCRIBE found in its sample of 100
\* records: the file's columns, or those of them the sample holds.
Describe ==
    /\ conv.at = "describe"
    /\ \E S \in SUBSET (1..Len(conv.file)) :
          WithColumns("yes", Pick(Names(conv.file), S))
    /\ UNCHANGED normalizer
    /\ UNCHANGED norm_frame

\* DESCRIBE raises: get_columns_from_json logs a warning and returns [].
DescribeRaises ==
    /\ conv.at = "describe"
    /\ WithColumns("raised", <<>>)
    /\ UNCHANGED normalizer
    /\ UNCHANGED norm_frame

\* con.execute(query) returns: the output file is written.
ExecuteOk ==
    /\ conv.at = "execute"
    /\ conv.path = "normalized" => Parses(conv.select)
    /\ conv' = [conv EXCEPT
                  !.at = "count",
                  !.written = TRUE,
                  !.output = IF conv.path = "normalized"
                             THEN Project(conv.file, conv.select)
                             ELSE conv.file]
    /\ UNCHANGED normalizer
    /\ UNCHANGED norm_frame

\* What process_entity records for (success, record_count, error_msg).
Returned(raised) ==
    conv' = [conv EXCEPT !.at = "returned", !.raised = raised,
                         !.result = IF raised = "none" THEN "PROCESSED"
                                    ELSE "FAILED"]

\* con.execute(query) raises.
ExecuteRaises ==
    /\ conv.at = "execute"
    /\ Returned("execute")
    /\ UNCHANGED normalizer
    /\ UNCHANGED norm_frame

\* The count query returns: return True, record_count, "".
CountOk ==
    /\ conv.at = "count"
    /\ Returned("none")
    /\ UNCHANGED normalizer
    /\ UNCHANGED norm_frame

\* The count query raises, after the output file was written.
CountRaises ==
    /\ conv.at = "count"
    /\ Returned("count")
    /\ UNCHANGED normalizer
    /\ UNCHANGED norm_frame

\* process_entity goes on to its next file.
NextFile ==
    /\ conv.at = "returned"
    /\ conv' = NoCall
    /\ UNCHANGED normalizer
    /\ UNCHANGED norm_frame

NextNormalizer ==
    \/ LoadConfig
    \/ ConvertCall
    \/ Describe
    \/ DescribeRaises
    \/ ExecuteOk
    \/ ExecuteRaises
    \/ CountOk
    \/ CountRaises
    \/ NextFile

\* One run's SchemaNormalizer and its conversions, one file after another,
\* for every config file and every file schema within the bounds.
SpecNormalizer == Init /\ [][NextNormalizer]_vars

\* ================================================================== claims
RowsOf(table, f) == {r \in table : r.file_path = f}

\* The files discover_files() returned in this run.
DiscoveredNow ==
    UNION {{files_by_entity[i][k] : k \in 1..Len(files_by_entity[i])} : i \in EntityIdx}

Attempted(f) == outcome[f] \in {"PROCESSED", "FAILED"}

\* C1: when a run has ended, every file it skipped has the same processed
\* row, the same failed row and the same derived file as when the run
\* started (and, being SKIPPED, was not handed to the conversion engine).
C1_SkippedUntouched ==
    pc = "done" =>
        \A f \in Files : outcome[f] = "SKIPPED" =>
            /\ RowsOf(processed_files, f) = RowsOf(at_start.processed, f)
            /\ RowsOf(failed_files, f) = RowsOf(at_start.failed, f)
            /\ derived[OutputPath(f)] = at_start.derived[OutputPath(f)]

\* C2 as claimed: a file that had a processed row when the run started is
\* converted and gets the new fingerprint into its row if its fingerprint
\* differs from the stored one, and is skipped if it is the same.
C2_ChangeDetection ==
    \A f \in Files : outcome[f] # "none" /\ HasRow(at_start.processed, f) =>
        IF Row(at_start.processed, f).file_hash # Digest(source[f])
        THEN /\ Attempted(f)
             /\ Row(processed_files, f).file_hash = Digest(source[f])
        ELSE outcome[f] = "SKIPPED"

\* C2 amended: a completed run reaches every discovered file; a changed file
\* is converted, and its row gets the new fingerprint if the conversion
\* succeeds and stays as it was, next to a failed row, if the conversion
\* fails; an unchanged file is skipped.
C2_ChangeDetectionAmended ==
    /\ pc = "done" => \A f \in DiscoveredNow : outcome[f] # "none"
    /\ \A f \in Files : outcome[f] # "none" /\ HasRow(at_start.processed, f) =>
          IF Row(at_start.processed, f).file_hash # Digest(source[f])
          THEN \/ /\ outcome[f] = "PROCESSED"
                  /\ Row(processed_files, f).file_hash = Digest(source[f])
               \/ /\ outcome[f] = "FAILED"
                  /\ RowsOf(processed_files, f) = RowsOf(at_start.processed, f)
                  /\ HasRow(failed_files, f)
          ELSE /\ outcome[f] = "SKIPPED"
               /\ RowsOf(processed_files, f) = RowsOf(at_start.processed, f)

\* A changed file was reconverted and its fingerprint updated.
C2_Witness ==
    \E f \in Files :
        /\ outcome[f] = "PROCESSED"
        /\ HasRow(at_start.processed, f)
        /\ Row(at_start.processed, f).file_hash # Digest(source[f])
        /\ Row(processed_files, f).file_hash = Digest(source[f])

\* The second of two completed runs with no environment operation since the
\* first one started.
SecondQuietRun == pc = "done" /\ hist.quiet /\ ~changed

AllSkippedSameStats ==
    /\ \A i \in EntityIdx : stats[i].skipped = stats[i].total
    /\ overall_stats.new_files = 0
    /\ get_stats = get_stats_of(at_start.processed, at_start.failed)

\* C3 as claimed: the second of two runs in a row with no source change
\* converts nothing (skipped = total in every category) and leaves
\* get_stats() as it was.
C3_Idempotence ==
    SecondQuietRun /\ hist.prev \in {"clean", "failed"} => AllSkippedSameStats

\* C3 amended: the same, when the first run ended without a failed file.
C3_IdempotenceAmended ==
    SecondQuietRun /\ hist.prev = "clean" => AllSkippedSameStats

C3_Witness ==
    /\ SecondQuietRun
    /\ hist.prev = "clean"
    /\ overall_stats.total_files = Cardinality(Files)
    /\ overall_stats.skipped = Cardinality(Files)

\* C4 as claimed: a path with a processed_files row has no failed_files row.
C4_ProcessedNotFailed ==
    \A r \in processed_files : ~HasRow(failed_files, r.file_path)

\* C4 amended: a path that was converted in this run has no failed_files row,
\* and a path with a row in both tables failed for another fingerprint than
\* the one its processed_files row stores (the reconversion of changed
\* content failed after an earlier success).
C4_ProcessedNotFailedAmended ==
    /\ \A f \in Files : outcome[f] = "PROCESSED" =>
          HasRow(processed_files, f) /\ ~HasRow(failed_files, f)
    /\ \A r \in processed_files : HasRow(failed_files, r.file_path) =>
          /\ failed_hash[r.file_path] # NoHash
          /\ failed_hash[r.file_path] # r.file_hash

\* A success has cleared the failure recorded by an earlier run.
C4_Witness ==
    \E f \in Files :
        /\ outcome[f] = "PROCESSED"
        /\ HasRow(at_start.failed, f)
        /\ ~HasRow(failed_files, f)

\* C5: a run whose conversions fail still ends with an outcome for every
\* discovered file; a failed file has its failed_files row, the files after
\* it are still handled, and a run is only ever cut short by a fingerprint
\* that raises, never by a failed conversion.
C5_FailureIsolation ==
    /\ pc \in {"cleanup", "scan", "summary", "done"} =>
          \A f \in DiscoveredNow : outcome[f] \in {"SKIPPED", "PROCESSED", "FAILED"}
    /\ \A f \in Files : outcome[f] = "FAILED" => HasRow(failed_files, f)
    /\ pc = "loop" =>
          \A k \in 1..(idx - 1) : outcome[files_by_entity[ei][k]] # "none"
    /\ pc = "aborted" /\ ei # 0 => HashRaises(source_file)

\* The first file of an entity failed, the next one of the same entity and
\* the one of the later entity were converted nevertheless.
C5_Witness ==
    /\ pc = "done"
    /\ outcome[File_a] = "FAILED"
    /\ \E k \in 1..(Len(files_by_entity[2]) - 1) :
          /\ outcome[files_by_entity[2][k]] = "FAILED"
          /\ outcome[files_by_entity[2][k + 1]] = "PROCESSED"

\* C6: nothing throws past the per-file loop: the run is never aborted, and
\* when the loop is over every discovered file has an outcome, a file that
\* could not be read having a failed_files row.
C6_PerFileErrorsCaught ==
    /\ pc # "aborted"
    /\ pc \in {"cleanup", "scan", "summary", "done"} =>
          \A f \in DiscoveredNow :
              /\ outcome[f] # "none"
              /\ source[f] = NoFile => HasRow(failed_files, f)

\* C7 as claimed: a file that had a failed_files row when the run started and
\* is reached by the run is handed to the conversion engine again.
C7_FailedRetried ==
    \A f \in Files : outcome[f] # "none" /\ HasRow(at_start.failed, f) => Attempted(f)

\* C7 amended: such a file is retried unless its fingerprint equals the one
\* of its processed_files row (the content of the last success is back); then
\* it is skipped and its failed_files row stays.  The failed_files row never
\* decides: the outcome is a skip exactly when the processed row matches.
C7_FailedRetriedAmended ==
    \A f \in Files : outcome[f] # "none" /\ HasRow(at_start.failed, f) =>
        IF /\ HasRow(at_start.processed, f)
           /\ Row(at_start.processed, f).file_hash = Digest(source[f])
        THEN /\ outcome[f] = "SKIPPED"
             /\ RowsOf(failed_files, f) = RowsOf(at_start.failed, f)
        ELSE Attempted(f)

\* A file with only a failed_files row, of the same content, was retried.
C7_Witness ==
    \E f \in Files :
        /\ HasRow(at_start.failed, f)
        /\ ~HasRow(at_start.processed, f)
        /\ Attempted(f)
        /\ runs >= 2

\* C8: a scan step removes the derived file it looks at if and only if the
\* source file it was written from does not exist (and the deletion does not
\* fail); and a pass without deletion errors leaves no derived file without
\* its source.
C8_OrphansExactly ==
    [][/\ pc = "scan" =>
            ((derived'[parquet_file] = NoFile)
                <=> (/\ source[made_from[parquet_file]] = NoFile
                     /\ cleanup_stats'.errors = cleanup_stats.errors))
       /\ pc = "scan" /\ pc' = "summary" /\ cleanup_stats'.errors = 0 =>
            \A d \in TargetFiles :
                derived'[d] # NoFile => source[made_from'[d]] # NoFile]_vars

\* dirname of a relative path: all up to its last separator.
RECURSIVE LastSep(_, _)
LastSep(s, i) == IF i = 0 THEN 0 ELSE IF s[i] = "/" THEN i ELSE LastSep(s, i - 1)

Dirname(s) == SubSeq(s, 1, LastSep(s, Len(s)) - 1)

\* C9: for every discovered source file the reverse mapping of cleanup gives
\* the file back from its output path, the directory part of the relative
\* path is the same on both sides, and no other discovered file has the same
\* output path.
C9_MappingBijective ==
    \A p \in DiscoveredNow :
        /\ SourcePath(OutputPath(p)) = p
        /\ Dirname(RelativeTo(OutputPath(p), target_dir))
              = Dirname(RelativeTo(p, source_dir))
        /\ \A q \in DiscoveredNow : q # p => OutputPath(q) # OutputPath(p)

\* C10: is_processed(path, fingerprint) is true exactly when processed_files
\* holds a row of that path with that fingerprint: false for an unknown path,
\* for a path with only a failed_files row and for another fingerprint; and a
\* file skipped on its answer has its rows unchanged.
C10_IsProcessed ==
    /\ \A f \in Files, c \in Contents \cup {NoFile} :
          /\ is_processed(f, Digest(c))
                <=> \E r \in processed_files :
                        r.file_path = f /\ r.file_hash = Digest(c)
          /\ RowsOf(processed_files, f) = {} => ~is_processed(f, Digest(c))
          /\ Cardinality(RowsOf(processed_files, f)) <= 1
    /\ \A f \in Files : outcome[f] = "SKIPPED" =>
          /\ RowsOf(processed_files, f) = RowsOf(at_start.processed, f)
          /\ RowsOf(failed_files, f) = RowsOf(at_start.failed, f)
          /\ is_processed(f, Digest(source[f]))

\* A path with only a failed_files row, and a path whose row stores another
\* fingerprint than the file's current one.
C10_Witness ==
    /\ \E f \in Files : HasRow(failed_files, f) /\ ~HasRow(processed_files, f)
    /\ \E g \in Files :
          /\ HasRow(processed_files, g)
          /\ source[g] # NoFile
          /\ ~is_processed(g, Digest(source[g]))
    /\ \E h \in Files : outcome[h] = "SKIPPED"

\* A step of the loop in which mark_processed / mark_failed is called for the
\* current file.
MarkProcessedStep == pc = "loop" /\ outcome'[source_file] = "PROCESSED"

MarkFailedStep == pc = "loop" /\ outcome'[source_file] = "FAILED"

\* C11: after mark_processed(path, fingerprint, category, size, recordCount,
\* outputPath) processed_files holds exactly one row for path, with exactly
\* those values, failed_files holds no row for path, and the rows of every
\* other path are unchanged in both tables.
C11_MarkProcessed ==
    [][MarkProcessedStep =>
          /\ RowsOf(processed_files', source_file) =
                {[file_path |-> source_file,
                  file_hash |-> Digest(source[source_file]),
                  entity_type |-> entity_type,
                  file_size |-> source[source_file],
                  record_count |-> RecordCount(source[source_file]),
                  output_path |-> OutputPath(source_file)]}
          /\ RowsOf(failed_files', source_file) = {}
          /\ \A g \in Files \ {source_file} :
                /\ RowsOf(processed_files', g) = RowsOf(processed_files, g)
                /\ RowsOf(failed_files', g) = RowsOf(failed_files, g)
          /\ \A r \in processed_files' \cup failed_files' : r.file_path \in Files]_vars

\* mark_processed has replaced an earlier row of the path, of another
\* fingerprint, and removed the path's failed_files row, while another path
\* of the same entity keeps its failed_files row.
C11_Witness ==
    \E f \in Files :
        /\ outcome[f] = "PROCESSED"
        /\ HasRow(at_start.processed, f)
        /\ Row(at_start.processed, f).file_hash # Row(processed_files, f).file_hash
        /\ HasRow(at_start.failed, f)
        /\ ~HasRow(failed_files, f)
        /\ \E g \in Files \ {f} :
              /\ HasRow(at_start.failed, g)
              /\ RowsOf(failed_files, g) = RowsOf(at_start.failed, g)
              /\ Row(failed_files, g).entity_type = Row(processed_files, f).entity_type

\* C12: mark_failed sets the path's retry counter to 1 if the path had no
\* failed_files row and to the prior value plus 1 otherwise; after k failed
\* attempts in a row, with no success and no clear_entity in between, the
\* counter is k; and the counter never decreases while the row exists.
C12_RetryCounter ==
    [][/\ MarkFailedStep =>
            /\ Cardinality(RowsOf(failed_files', source_file)) = 1
            /\ \A r \in RowsOf(failed_files', source_file) :
                  /\ r.retry_count =
                        IF RowsOf(failed_files, source_file) = {} THEN 1
                        ELSE (CHOOSE q \in RowsOf(failed_files, source_file) : TRUE).retry_count + 1
                  /\ r.retry_count = failures'[source_file]
       /\ \A f \in Files :
            /\ \A r \in RowsOf(failed_files', f) : r.retry_count = failures'[f]
            /\ \A q \in RowsOf(failed_files, f), r \in RowsOf(failed_files', f) :
                  r.retry_count >= q.retry_count]_vars

\* A path has failed twice in a row: its counter is 2.
C12_Witness ==
    \E f \in Files :
        /\ outcome[f] = "FAILED"
        /\ failures[f] = 2
        /\ HasRow(at_start.failed, f)
        /\ Row(at_start.failed, f).retry_count = 1
        /\ Row(failed_files, f).retry_count = 2

\* C13: mark_failed leaves processed_files as it is, for every path, and
\* leaves the failed_files rows of every other path as they are.
C13_MarkFailedFrame ==
    [][MarkFailedStep =>
          /\ processed_files' = processed_files
          /\ \A g \in Files \ {source_file} :
                RowsOf(failed_files', g) = RowsOf(failed_files, g)
          /\ \A r \in failed_files' : r.file_path \in Files]_vars

\* mark_failed was called for a path that has a processed_files row, which
\* is still the row the run started with, while another path keeps the
\* failed_files row it had.
C13_Witness ==
    \E f \in Files :
        /\ outcome[f] = "FAILED"
        /\ HasRow(at_start.processed, f)
        /\ RowsOf(processed_files, f) = RowsOf(at_start.processed, f)
        /\ \E g \in Files \ {f} :
              /\ HasRow(at_start.failed, g)
              /\ RowsOf(failed_files, g) = RowsOf(at_start.failed, g)

\* The run in progress (or just ended) has not skipped any file of an entity
\* that was cleared before it started, and has converted all of them once it
\* has completed.
ClearedReconverted ==
    \A i \in at_start.cleared :
        /\ \A f \in Files :
              Under(f, source_dir, entity_types[i]) /\ outcome[f] # "none" => Attempted(f)
        /\ pc = "done" =>
              \A k \in 1..Len(files_by_entity[i]) : Attempted(files_by_entity[i][k])

\* C14: after clear_entity(category) neither table holds a row of that
\* category, the rows of every other category are unchanged, and the next
\* run converts, and does not skip, every discovered file of the category.
C14_ClearEntity ==
    [][/\ \A i \in cleared' \ cleared :
            LET e == entity_types[i]
            IN  /\ \A r \in processed_files' \cup failed_files' : r.entity_type # e
                /\ {r \in processed_files' : r.entity_type # e}
                      = {r \in processed_files : r.entity_type # e}
                /\ {r \in failed_files' : r.entity_type # e}
                      = {r \in failed_files : r.entity_type # e}
       /\ ClearedReconverted']_vars

\* After a run that converted everything, entity "w" was cleared, with no
\* other change: the next run converts both files of "w" again and skips the
\* file of "a", whose row was kept.
C14_Witness ==
    /\ pc = "done"
    /\ hist.prev = "clean"
    /\ ops = 1
    /\ at_start.cleared = {2}
    /\ HasRow(at_start.processed, File_a)
    /\ outcome[File_a] = "SKIPPED"
    /\ Attempted(File_w1)
    /\ Attempted(File_w2)

\* The paths with a row of entity e in a table, and the total of one column
\* over them, path by path.
PathsOf(table, e) ==
    {f \in Files : \E r \in table : r.file_path = f /\ r.entity_type = e}

RECURSIVE TotalOver(_, _, _)
TotalOver(paths, table, field) ==
    IF paths = {} THEN 0
    ELSE LET f == CHOOSE x \in paths : TRUE
         IN  Row(table, f)[field] + TotalOver(paths \ {f}, table, field)

\* What get_stats() returns for entity e (no group: no rows).
ProcessedStats(st, e) ==
    IF e \in DOMAIN st.processed THEN st.processed[e]
    ELSE [files |-> 0, records |-> 0, size_bytes |-> 0]

FailedStats(st, e) == IF e \in DOMAIN st.failed THEN st.failed[e] ELSE 0

\* get_stats() is computed over exactly the rows in the ledger: an entity has
\* a group exactly if it has rows, with their number and the totals of their
\* record counts and byte sizes; likewise the number of failed_files rows.
StatsExact ==
    /\ DOMAIN get_stats.processed = {e \in Entities : PathsOf(processed_files, e) # {}}
    /\ DOMAIN get_stats.failed = {e \in Entities : PathsOf(failed_files, e) # {}}
    /\ \A e \in Entities :
          /\ ProcessedStats(get_stats, e) =
                [files |-> Cardinality(PathsOf(processed_files, e)),
                 records |-> TotalOver(PathsOf(processed_files, e), processed_files, "record_count"),
                 size_bytes |-> TotalOver(PathsOf(processed_files, e), processed_files, "file_size")]
          /\ FailedStats(get_stats, e) = Cardinality(PathsOf(failed_files, e))

\* C15: get_stats() returns per category the number of processed_files rows,
\* the totals of their record counts and sizes and the number of
\* failed_files rows, over exactly the rows in the ledger; and the
\* conversion of a file that had no processed_files row raises its
\* category's file count by 1 and its record total by the file's record
\* count, and leaves the aggregates of the other categories as they were.
C15_GetStats ==
    [][/\ StatsExact'
       /\ MarkProcessedStep /\ ~HasRow(processed_files, source_file) =>
            LET before == get_stats_of(processed_files, failed_files)
                after == get_stats_of(processed_files', failed_files')
            IN  /\ ProcessedStats(after, entity_type).files
                      = ProcessedStats(before, entity_type).files + 1
                /\ ProcessedStats(after, entity_type).records
                      = ProcessedStats(before, entity_type).records
                          + RecordCount(source[source_file])
                /\ \A e \in Entities \ {entity_type} :
                      /\ ProcessedStats(after, e) = ProcessedStats(before, e)
                      /\ FailedStats(after, e) = FailedStats(before, e)]_vars

\* A file without a row was converted next to a file of the same category
\* that was skipped on its earlier row, while the other category has rows
\* too: the category now counts two files.
C15_Witness ==
    \E f \in Files, g \in Files :
        /\ f # g
        /\ outcome[f] = "PROCESSED"
        /\ ~HasRow(at_start.processed, f)
        /\ outcome[g] = "SKIPPED"
        /\ Row(processed_files, f).entity_type = Row(processed_files, g).entity_type
        /\ ProcessedStats(get_stats, Row(processed_files, f).entity_type).files = 2
        /\ ProcessedStats(get_stats, Row(processed_files, f).entity_type).records
              = Row(processed_files, f).record_count + Row(processed_files, g).record_count
        /\ ProcessedStats(get_stats, <<"a">>).files = 1

\* The complete effect of a call on the committed tables: the method as one
\* step.
CompleteEffect(call) ==
    CASE call.method = "mark_processed" ->
            mark_processed(call.file_path, call.file_hash, call.entity_type,
                           call.file_size, call.record_count, call.output_path)
      [] call.method = "mark_failed" ->
            mark_failed(call.file_path, call.entity_type, call.error_message)
      [] call.method = "clear_entity" -> clear_entity(call.entity_type)

\* C16: whatever a reader of the database, or the process restarted after a
\* crash, finds in the two tables is the state before a call or the state
\* after the whole call: the committed tables only ever change by the
\* complete effect of the call in progress.
C16_Atomic ==
    [][\/ UNCHANGED <<processed_files, failed_files>>
       \/ txn.open /\ CompleteEffect(txn.call)]_vars

\* Inside mark_processed, after the INSERT and before the DELETE, for a path
\* that has a failed_files row and a processed_files row of another
\* fingerprint: the database file still holds the state before the call.
C16_Witness ==
    /\ txn.open
    /\ txn.call.method = "mark_processed"
    /\ txn.executed = 1
    /\ HasRow(txn.failed, txn.call.file_path)
    /\ HasRow(failed_files, txn.call.file_path)
    /\ HasRow(processed_files, txn.call.file_path)
    /\ Row(processed_files, txn.call.file_path).file_hash # txn.call.file_hash
    /\ Row(txn.processed, txn.call.file_path).file_hash = txn.call.file_hash

\* C17: at the step that decides the exit status, the status is non-zero
\* exactly if a conversion failed in this run, and the summary's success flag
\* is false exactly then; every discovered file has been handled and
\* reconciliation has run (the step is taken after cleanup, and writes the
\* summary).
C17_ExitSignal ==
    [][exit_code = -1 /\ exit_code' # -1 =>
          /\ exit_code' # 0 <=> \E f \in Files : outcome'[f] = "FAILED"
          /\ stats_output'.written
          /\ stats_output'.success <=> exit_code' = 0
          /\ \A f \in DiscoveredNow : outcome'[f] # "none"
          /\ pc = "summary"]_vars

\* C18: a StateManager call that raises inside the loop ends the run at once:
\* the run is aborted with a non-zero status, and as long as no new run is
\* started no further file gets an outcome, no derived file is written or
\* removed, the loop does not move on, the ledger is not written (unless the
\* operator clears an entity), and no summary is written.
C18_LedgerFailureFatal ==
    [][/\ error' = "sqlite3.Error" => pc' = "aborted" /\ exit_code' = 1
       /\ error = "sqlite3.Error" /\ runs' = runs =>
            /\ pc' = "aborted"
            /\ derived' = derived
            /\ \A f \in Files : outcome'[f] \in {outcome[f], "none"}
            /\ idx' \in {idx, 0}
            /\ ~stats_output'.written
            /\ cleared' = cleared =>
                  processed_files' = processed_files /\ failed_files' = failed_files]_vars

\* mark_processed has raised for the file of "a", whose derived file is
\* written and which has no row; the files of "w" were discovered and are
\* left without an outcome.
C18_Witness ==
    /\ error = "sqlite3.Error"
    /\ pc = "aborted"
    /\ ei = 1
    /\ Len(files_by_entity[2]) = 2
    /\ \A k \in 1..2 : outcome[files_by_entity[2][k]] = "none"
    /\ derived[OutputPath(File_a)] = source[File_a]
    /\ ~HasRow(processed_files, File_a)
    /\ outcome[File_a] = "none"

\* The derived files in the target tree.
Present(tree) == {d \in TargetFiles : tree[d] # NoFile}

\* C19: every step of the scan counts the file it looks at in scanned and in
\* exactly one of removed, kept and errors; a file whose deletion failed
\* still exists, and the scan goes on after it: the pass ends only with the
\* last file found, having scanned every derived file, so that scanned =
\* removed + kept + errors.
C19_CleanupErrors ==
    [][/\ pc = "scan" =>
            /\ cleanup_stats'.scanned = cleanup_stats.scanned + 1
            /\ cleanup_stats'.removed >= cleanup_stats.removed
            /\ cleanup_stats'.kept >= cleanup_stats.kept
            /\ cleanup_stats'.errors >= cleanup_stats.errors
            /\ cleanup_stats'.errors > cleanup_stats.errors =>
                  derived' = derived /\ derived'[parquet_file] # NoFile
            /\ cleanup_stats'.removed > cleanup_stats.removed =>
                  derived'[parquet_file] = NoFile
       /\ cleanup_stats'.scanned
            = cleanup_stats'.removed + cleanup_stats'.kept + cleanup_stats'.errors
       /\ pc \in {"cleanup", "scan"} /\ pc' = "summary" =>
            cleanup_stats'.scanned
                = Cardinality(Present(derived')) + cleanup_stats'.removed]_vars

\* The deletion of the orphan of "a" has failed, the file is still there;
\* the scan went on to "w" and removed the file it found there.
C19_Witness ==
    /\ pc = "done"
    /\ cleanup_stats.errors = 1
    /\ cleanup_stats.removed = 1
    /\ cleanup_stats.scanned = 2
    /\ source[File_a] = NoFile
    /\ derived[OutputPath(File_a)] # NoFile
    /\ derived[OutputPath(File_w1)] = NoFile

\* C20: cleanup_orphan_parquets leaves both tables of the ledger as they
\* are, whatever it removes, and keeps the file it looks at exactly if the
\* source path its name maps back to exists, whatever the ledger says.
C20_CleanupLedgerFree ==
    [][(pc = "cleanup" \/ pc = "scan") =>
          /\ processed_files' = processed_files
          /\ failed_files' = failed_files
          /\ pc = "scan" =>
                /\ (cleanup_stats'.kept = cleanup_stats.kept + 1)
                      <=> (source[SourcePath(parquet_file)] # NoFile)
                /\ (cleanup_stats'.kept = cleanup_stats.kept + 1)
                      => (derived'[parquet_file] # NoFile)
                /\ (derived'[parquet_file] = NoFile)
                      => (source[SourcePath(parquet_file)] = NoFile)]_vars

\* A run has removed the derived file of a deleted source file whose
\* processed_files row is still the one the run started with.
C20_Witness ==
    /\ pc = "done"
    /\ cleanup_stats.removed >= 1
    /\ \E r \in processed_files :
          /\ source[r.file_path] = NoFile
          /\ at_start.derived[r.output_path] # NoFile
          /\ derived[r.output_path] = NoFile
          /\ r \in at_start.processed

\* C21: when the category needs normalization and get_columns_from_json
\* gave no columns (DESCRIBE raised, or its sample held none), the file is
\* not failed there: the query without normalization is the one executed,
\* nothing is recorded before it ran, the file is recorded FAILED only if
\* that query or the count after it raised, and PROCESSED otherwise.
C21_FallbackOnNoColumns ==
    (/\ conv.at \in {"execute", "count", "returned"}
     /\ needs_normalization(normalizer, conv.entity_type)
     /\ conv.columns = <<>>)
    => /\ conv.path = "fallback"
       /\ conv.at \in {"execute", "count"} => conv.result = "none"
       /\ conv.result = "FAILED" => conv.raised \in {"execute", "count"}
       /\ conv.at = "returned" /\ conv.raised = "none"
            => conv.result = "PROCESSED" /\ conv.written

\* DESCRIBE raised, the fallback query ran and the file is PROCESSED.
C21_Witness ==
    /\ conv.at = "returned"
    /\ needs_normalization(normalizer, conv.entity_type)
    /\ conv.described = "raised"
    /\ conv.path = "fallback"
    /\ conv.result = "PROCESSED"
    /\ conv.file # <<>>
\* C22: the select clause built for the observed columns has exactly one
\* part per observed column, in the order observed, each part reads and
\* names its own column, and its expression is the cast to text for a
\* column of columns_to_varchar, the serialization to text for a column of
\* struct_columns_to_json (not also of columns_to_varchar) and the bare
\* column for every other one: no column is dropped, doubled or moved.
C22_ProjectionTotal ==
    conv.path = "normalized" =>
        LET rules == get_normalization_rules(normalizer, conv.entity_type)
            to_text == rules.columns_to_varchar
            to_serialized == rules.struct_columns_to_json
        IN  /\ Len(conv.select) = Len(conv.columns)
            /\ \A i \in 1..Len(conv.columns) :
                 LET part == conv.select[i]
                     col == conv.columns[i]
                 IN  /\ part.col = col
                     /\ part.alias = col
                     /\ part.expr = "CAST" <=> col \in to_text
                     /\ part.expr = "to_json" <=> col \in to_serialized \ to_text
                     /\ part.expr = "as-is" <=> col \notin to_text \cup to_serialized
                     /\ part.expr \in {"CAST", "to_json", "as-is"}

\* Two observed columns: the first passes through, the second is serialized.
C22_Witness ==
    /\ conv.path = "normalized"
    /\ Len(conv.columns) = 2
    /\ conv.select[1].expr = "as-is"
    /\ conv.select[2].expr = "to_json"
\* The columns of a schema that a rule of the entity names.
RuleListed(schema, etype) ==
    LET rules == get_normalization_rules(normalizer, etype)
    IN  {i \in 1..Len(schema) :
            schema[i].name \in rules.columns_to_varchar
                               \cup rules.struct_columns_to_json}

\* C23: for a category with normalization rules, the output of every file
\* recorded PROCESSED has each rule-listed column the file contains, typed
\* as text, whichever query produced it.
C23_RuleColumnsAreText ==
    (/\ conv.result = "PROCESSED"
     /\ needs_normalization(normalizer, conv.entity_type))
    => \A i \in RuleListed(conv.file, conv.entity_type) :
          \E j \in 1..Len(conv.output) :
             /\ conv.output[j].name = conv.file[i].name
             /\ conv.output[j].type = "VARCHAR"
\* The entity has an entry in the loaded config.
Configured(etype) == etype \in DOMAIN normalizer.rules

\* C24: needs_normalization(category) is true exactly when the category
\* has a config entry of which at least one of the two lists is not empty;
\* a category without an entry, and every category when the config file
\* does not exist, has two empty rule sets and needs no normalization, and
\* a conversion takes the plain query exactly in those cases.
C24_NeedsNormalization ==
    /\ \A etype \in Entities :
         LET listed == IF Configured(etype)
                       THEN normalizer.rules[etype].columns_to_varchar
                               \cup normalizer.rules[etype].struct_columns_to_json
                       ELSE {}
         IN  /\ needs_normalization(normalizer, etype) <=> listed # {}
             /\ (~Configured(etype) \/ ~normalizer.exists)
                  => /\ get_normalization_rules(normalizer, etype)
                          = [columns_to_varchar |-> {}, struct_columns_to_json |-> {}]
                     /\ ~needs_normalization(normalizer, etype)
             /\ (conv.at # "idle" /\ conv.entity_type = etype)
                  => (conv.path = "plain" <=> listed = {})

\* "w" has an entry with a struct column only and needs normalization; the
\* file being converted is of "a", which has no entry: the plain query.
C24_Witness ==
    /\ normalizer.exists
    /\ Configured(<<"w">>)
    /\ normalizer.rules[<<"w">>].columns_to_varchar = {}
    /\ normalizer.rules[<<"w">>].struct_columns_to_json # {}
    /\ needs_normalization(normalizer, <<"w">>)
    /\ ~Configured(<<"a">>)
    /\ conv.entity_type = <<"a">>
    /\ conv.path = "plain"
    /\ conv.result = "PROCESSED"
\* C25: a failed conversion leaves the derived tree as it was; a derived
\* file is created or overwritten only in the step that records its source
\* file PROCESSED, and what is written there is the content that step's
\* processed_files row records.
C25_FailureLeavesDerived ==
    [][/\ MarkFailedStep => derived' = derived
       /\ \A d \in TargetFiles :
            (derived'[d] # derived[d] /\ derived'[d] # NoFile)
            => /\ MarkProcessedStep
               /\ d = OutputPath(source_file)
               /\ \E r \in processed_files' :
                     /\ r.file_path = source_file
                     /\ r.output_path = d
                     /\ r.file_hash = Digest(derived'[d])]_vars
\* At the end of a run: f was processed before the run and its source file
\* is gone; the run has removed its derived file and kept its row.
OrphanRemovedRowKept(f) ==
    (/\ HasRow(at_start.processed, f)
     /\ source[f] = NoFile
     /\ cleanup_stats.errors = 0)
    => /\ derived[OutputPath(f)] = NoFile
       /\ RowsOf(processed_files, f) = RowsOf(at_start.processed, f)

\* At the end of a run: f is back with the content its row records and had
\* no derived file when the run started; the run has skipped it and f still
\* has its row and no derived file.
SkippedWithoutDerived(f) ==
    (/\ HasRow(at_start.processed, f)
     /\ source[f] # NoFile
     /\ Row(at_start.processed, f).file_hash = Digest(source[f])
     /\ at_start.derived[OutputPath(f)] = NoFile)
    => /\ outcome[f] = "SKIPPED"
       /\ RowsOf(processed_files, f) = RowsOf(at_start.processed, f)
       /\ derived[OutputPath(f)] = NoFile

\* C26: orphan removal does not clear the ledger row.  A run that finds a
\* processed source file deleted removes its derived file and keeps its
\* row; a run that finds the file back with the recorded content and no
\* derived file skips it and leaves it without derived file.
C26_OrphanKeepsEntry ==
    pc = "done" =>
        \A f \in Files : OrphanRemovedRowKept(f) /\ SkippedWithoutDerived(f)
\* The step is clear_entity of the category of row r.
ClearsCategoryOf(r) ==
    \E i \in cleared' \ cleared : entity_types[i] = r.entity_type

\* C27: a path's processed_files row disappears only in clear_entity of its
\* category, a path's failed_files row only in clear_entity of its category
\* or in mark_processed of the same path; a run that ends has kept the rows
\* of the source files that no longer exist, and the summary it writes
\* counts them.
C27_RowsNeverDeleted ==
    [][/\ \A f \in Files :
            /\ (HasRow(processed_files, f) /\ ~HasRow(processed_files', f))
                 => ClearsCategoryOf(Row(processed_files, f))
            /\ (HasRow(failed_files, f) /\ ~HasRow(failed_files', f))
                 => \/ ClearsCategoryOf(Row(failed_files, f))
                    \/ MarkProcessedStep /\ source_file = f
       /\ (pc = "summary" /\ pc' = "done")
            => /\ \A f \in Files :
                    source[f] = NoFile
                    => /\ RowsOf(processed_files', f) = RowsOf(at_start.processed, f)
                       /\ RowsOf(failed_files', f) = RowsOf(at_start.failed, f)
               /\ \A e \in Entities :
                    PathsOf(processed_files', e) # {}
                    => /\ e \in DOMAIN stats_output'.entity_stats
                       /\ stats_output'.entity_stats[e].files
                             = Cardinality(PathsOf(processed_files', e))]_vars

\* A run has ended in which a file was converted; the source file of "a"
\* is gone, was processed before the run, still has its row, and the
\* summary counts one file of "a".
C27_Witness ==
    /\ pc = "done"
    /\ overall_stats.processed > 0
    /\ source[File_a] = NoFile
    /\ HasRow(at_start.processed, File_a)
    /\ HasRow(processed_files, File_a)
    /\ stats_output.entity_stats[<<"a">>].files = 1
\* No column name is in both rule sets of an entity.
RuleSetsDisjoint ==
    \A etype \in Entities :
        LET rules == get_normalization_rules(normalizer, etype)
        IN  rules.columns_to_varchar \cap rules.struct_columns_to_json = {}

\* C28: whatever config the normalizer has loaded, no column name is in both
\* rule sets of a category, and once loaded the rules never change.
C28_RuleSetsDisjointAndFixed ==
    [][/\ RuleSetsDisjoint'
       /\ normalizer.loaded => normalizer' = normalizer]_vars
\* What the loop leaves for file f depends on f's content, f's outcome and
\* the state at the start of the run only, not on the files around it.
ResultOfItsOwn(f) ==
    LET d == OutputPath(f)
    IN  /\ outcome[f] = "PROCESSED"
             => /\ derived[d] = source[f]
                /\ HasRow(processed_files, f)
                /\ Row(processed_files, f).file_hash = Digest(source[f])
                /\ ~HasRow(failed_files, f)
        /\ outcome[f] = "FAILED"
             => /\ derived[d] = at_start.derived[d]
                /\ RowsOf(processed_files, f) = RowsOf(at_start.processed, f)
                /\ HasRow(failed_files, f)
        /\ outcome[f] = "SKIPPED"
             => /\ derived[d] = at_start.derived[d]
                /\ RowsOf(processed_files, f) = RowsOf(at_start.processed, f)
                /\ RowsOf(failed_files, f) = RowsOf(at_start.failed, f)

\* C29: the conversions of a run are independent of one another.  When the
\* loop has finished, no two discovered source files have the same
\* destination path, and the ledger rows and the derived file of every file
\* are those of its own conversion, whatever the order the files were
\* processed in.
C29_OrderIndependent ==
    pc = "cleanup" =>
        /\ \A f \in DiscoveredNow, g \in DiscoveredNow :
              f # g => OutputPath(f) # OutputPath(g)
        /\ \A f \in Files : ResultOfItsOwn(f)
\* The derived files in the target tree.
AllDerived == UNION {GlobIn(derived, entity_types[i]) : i \in EntityIdx}

\* One complete pass has been made: every derived file was looked at once
\* (it is still there, or the pass removed it), and no derived file is left
\* in a category for which discovery found no source file, unless its
\* deletion failed.
OnePassMade ==
    /\ cleanup_stats.scanned = Cardinality(AllDerived) + cleanup_stats.removed
    /\ cleanup_stats.errors = 0
         => \A i \in EntityIdx :
               files_by_entity[i] = <<>> => GlobIn(derived, entity_types[i]) = {}

\* C30: every run makes exactly one reconciliation pass, whether or not a
\* conversion failed: a run ends only after the pass, the pass begins only
\* when every discovered file of every category has been handled, nothing
\* is scanned after it, and it also sweeps the categories for which
\* discovery returned no source file.
C30_ReconciliationOnce ==
    [][/\ (exit_code = -1 /\ exit_code' # -1) => (pc = "summary" /\ OnePassMade)
       /\ (pc' = "cleanup" \/ pc' = "scan" \/ pc' = "summary")
            => \A f \in DiscoveredNow' : outcome'[f] # "none"
       /\ pc = "summary" => (pc' = "done" /\ cleanup_stats' = cleanup_stats)]_vars
\* The files discover_files() returned for entity i in this run.
FilesOf(i) == {files_by_entity[i][k] : k \in 1..Len(files_by_entity[i])}

\* process_entity was called for entity i in this run and has returned.
Returned_from(i) ==
    /\ files_by_entity[i] # <<>>
    /\ \/ pc \in {"cleanup", "scan", "summary", "done"}
       \/ pc \in {"loop", "aborted"} /\ ei > i

\* The number of files of entity i that this run left in terminal state t.
CountOf(i, t) == Cardinality({f \in FilesOf(i) : outcome[f] = t})

RECURSIVE SumStats(_, _)
SumStats(field, i) ==
    IF i = 0 THEN 0
    ELSE (IF Returned_from(i) THEN stats[i][field] ELSE 0) + SumStats(field, i - 1)

\* The accounting of the entities process_entity has returned for, and of
\* the run.
Accounted ==
    /\ \A i \in EntityIdx :
          Returned_from(i) =>
             /\ stats[i].total = Len(files_by_entity[i])
             /\ stats[i].total
                   = stats[i].skipped + stats[i].processed + stats[i].failed
             /\ stats[i].new = stats[i].processed + stats[i].failed
             /\ stats[i].skipped = CountOf(i, "SKIPPED")
             /\ stats[i].processed = CountOf(i, "PROCESSED")
             /\ stats[i].failed = CountOf(i, "FAILED")
             /\ \A f \in FilesOf(i) : outcome[f] # "none"
    /\ pc \in {"loop", "aborted", "cleanup", "scan", "summary", "done"}
         => /\ overall_stats.total_files = SumLen(files_by_entity, Len(entity_types))
            /\ overall_stats.new_files = SumStats("new", Len(entity_types))
            /\ overall_stats.processed = SumStats("processed", Len(entity_types))
            /\ overall_stats.skipped = SumStats("skipped", Len(entity_types))
            /\ overall_stats.failed = SumStats("failed", Len(entity_types))

\* C31: when process_entity has returned for a category, every file of the
\* category is counted in exactly one of skipped, processed and failed:
\* total = skipped + processed + failed and new = processed + failed;
\* processed goes up by one in exactly the steps that call mark_processed,
\* failed in exactly those that call mark_failed; and the run's totals are
\* the sums over the categories process_entity has returned for.
C31_Accounting ==
    [][/\ Accounted'
       /\ (pc = "loop" /\ runs' = runs /\ pc' # "idle") =>
            /\ stats'[ei].processed
                  = stats[ei].processed + (IF MarkProcessedStep THEN 1 ELSE 0)
            /\ stats'[ei].failed
                  = stats[ei].failed + (IF MarkFailedStep THEN 1 ELSE 0)]_vars

\* A run has ended in which both categories had files and one file each was
\* skipped, converted and failed.
C31_Witness ==
    /\ pc = "done"
    /\ Returned_from(1) /\ Returned_from(2)
    /\ overall_stats.total_files = 3
    /\ overall_stats.skipped = 1
    /\ overall_stats.processed = 1
    /\ overall_stats.failed = 1
    /\ overall_stats.new_files = 2
\* A run is under way.
Running == pc \in {"loop", "cleanup", "scan", "summary"}

\* C32: a run in which every hash, conversion and ledger call returns
\* terminates; when it has, each discovered file has reached one terminal
\* state (SKIPPED, PROCESSED or FAILED); a file gets its terminal state in a
\* step of the loop that has this file as its current one, once: the state
\* is not set or changed again within the run.
C32_Terminates ==
    /\ Running ~> (pc = "done" \/ error = "OSError")
    /\ [](pc = "done" =>
            \A f \in DiscoveredNow : outcome[f] \in {"SKIPPED", "PROCESSED", "FAILED"})
    /\ [][Running =>
            \A f \in Files :
               outcome'[f] # outcome[f]
               => /\ pc = "loop" /\ f = source_file
                  /\ outcome[f] = "none"
                  /\ outcome'[f] \in {"SKIPPED", "PROCESSED", "FAILED"}
                  /\ <<ei', idx'>> # <<ei, idx>> \/ pc' = "cleanup"]_vars

\* The second run has ended: it skipped a file and converted another, and
\* every file has its terminal state.
C32_Witness ==
    /\ pc = "done"
    /\ runs = 2
    /\ \A f \in Files : f \in DiscoveredNow /\ outcome[f] # "none"
    /\ \E f \in Files : outcome[f] = "SKIPPED"
    /\ \E f \in Files : outcome[f] = "PROCESSED"
\* C33: in the select clause built for a file, every observed column whose
\* name is a reserved word of the engine is referenced in double quotes, so
\* the clause parses whatever columns were observed, and the conversion of
\* a file is never recorded FAILED with a clause that does not parse.
C33_ReservedQuoted ==
    conv.path = "normalized" =>
        /\ \A i \in 1..Len(conv.columns) :
              conv.columns[i] \in ReservedWords => conv.select[i].quoted
        /\ conv.result = "FAILED" => Parses(conv.select)
====
